---- MODULE Spec2Model ----
(***************************************************************************)
(* Graph assembly of the procede scripts: river_graph.py (graph),          *)
(* town_graph.py (graph_town) and poly_graph.py (discover_poly,            *)
(* graph_poly).  Each script loads a JSON document, builds a networkx      *)
(* Graph from it and hands the graph to the plotting library.  The model   *)
(* covers everything up to the hand-over.                                  *)
(***************************************************************************)
EXTENDS Integers, Sequences, FiniteSets, TLC

VARIABLES
    data,    \* the decoded JSON document (json.load)
    nodes,   \* river_graph.graph: the list of constructed Node objects
    graph,   \* the nx.Graph under construction
    pc,      \* position of the running script
    i,       \* index of the enclosing for loop (1-based)
    j,       \* river edge pass: index into the current node's inlets
    uuid     \* poly_graph: number of uuid4() values drawn so far

vars == <<data, nodes, graph, pc, i, j, uuid>>

(***************************************************************************)
(* Bounds of the checked inputs.                                           *)
(***************************************************************************)
\* Width of the unsigned index type in the model; the source uses 64.
UsizeBits == 4
\* Largest number of records in a river document.
MaxRecords == 2
\* Largest length of a raw `inlets` array.
MaxInlets == 2
\* Largest length of a raw adjacency array in the sentinel documents.
MaxRaw == 3
\* Largest number of node records / edge records in a town document.
MaxTownNodes == 2
MaxTownEdges == 2
\* Largest number of ring points of a polygon (closing duplicate excluded).
MaxRing == 4
\* Largest number of top-level entries in a document of plain polygons.
MaxShapes == 2

\* river_graph.py:10  USIZE_MAX = 2 ** 64 - 1, at the model's width.
USIZE_MAX == 2^UsizeBits - 1

NodeIds == {0, 1, 2}
Elevations == {-1, 5}
Orders == {2, 4}
TownIds == {0, 1}
TownRefs == {0, 1, 99}

(***************************************************************************)
(* nx.Graph.  node: the node keys; pos: the 'pos' attribute of the nodes   *)
(* that have one; edge: the undirected edges, each the set of its          *)
(* endpoints (a self-loop is a singleton); attr: the attribute dict of the *)
(* edges that carry attributes.                                            *)
(***************************************************************************)
EmptyGraph == [node |-> {}, pos |-> <<>>, edge |-> {}, attr |-> <<>>]

\* graph.add_node(n, pos=p): inserts n if absent and (over)writes its pos.
add_node(g, n, p) ==
    [g EXCEPT !.node = g.node \cup {n},
              !.pos = [m \in (DOMAIN g.pos) \cup {n} |->
                          IF m = n THEN p ELSE g.pos[m]]]

\* graph.add_edge(u, v): inserts u and v if absent, without attributes,
\* then the undirected edge.
add_edge(g, u, v) ==
    [g EXCEPT !.node = g.node \cup {u, v},
              !.edge = g.edge \cup {{u, v}}]

\* graph.add_edge(u, v, color=c, width=w): as add_edge, and updates the
\* attribute dict shared by both directions of the edge.
add_edge_attr(g, u, v, c, w) ==
    [add_edge(g, u, v) EXCEPT
        !.attr = [e \in (DOMAIN g.attr) \cup {{u, v}} |->
                     IF e = {u, v} THEN [color |-> c, width |-> w]
                     ELSE g.attr[e]]]

(***************************************************************************)
(* river_graph.py                                                          *)
(***************************************************************************)
\* Node.__init__.fn
fn(x) == x # USIZE_MAX

\* A faulty filter that strips the sentinel only from the head of the list.
filter_leading(xs) ==
    IF xs # <<>> /\ ~fn(xs[1]) THEN Tail(xs) ELSE xs

\* list(filter(fn, xs))
filter_fn(xs) == SelectSeq(xs, fn)

\* Node.__init__: the fields graph() reads, and neighbors.  indices,
\* outlet, direction and fork_angle are copied and never read again.
Node(d) ==
    [i |-> d.i,
     uv |-> d.uv,
     h |-> d.h,
     neighbors |-> filter_fn(d.neighbors),
     inlets |-> filter_fn(d.inlets),
     strahler |-> d.strahler]

\* Python list indexing nodes[k] for k >= 0: the list is 0-based.
InRange(xs, k) == k + 1 <= Len(xs)
At(xs, k) == xs[k + 1]

\* nodes = [Node(**d) for d in data['graph']]
river_construct ==
    /\ pc = "river_load"
    /\ nodes' = [k \in 1..Len(data.graph) |-> Node(data.graph[k])]
    /\ pc' = "river_nodes"
    /\ i' = 1
    /\ UNCHANGED <<data, graph, j, uuid>>

\* One iteration of the node pass (lines 60-67).
river_add_node ==
    /\ pc = "river_nodes"
    /\ i <= Len(nodes)
    /\ LET node == nodes[i]
           inlets == node.inlets
       IN  graph' = IF node.h < 0 /\ inlets = <<>>
                    THEN graph
                    ELSE add_node(graph, node.i, <<node.uv.x, node.uv.y>>)
    /\ i' = i + 1
    /\ UNCHANGED <<data, nodes, pc, j, uuid>>

\* The node pass is exhausted; the edge pass starts at the first node.
river_nodes_done ==
    /\ pc = "river_nodes"
    /\ i > Len(nodes)
    /\ pc' = "river_edges"
    /\ i' = 1
    /\ j' = 1
    /\ UNCHANGED <<data, nodes, graph, uuid>>

\* One iteration of the inner loop of the edge pass (lines 71-75).
\* nodes[inlet] is evaluated before add_edge is called; an index past the
\* end of the list raises IndexError, which leaves graph().
river_add_edge ==
    /\ pc = "river_edges"
    /\ i <= Len(nodes)
    /\ j <= Len(nodes[i].inlets)
    /\ LET node == nodes[i]
           inlet == node.inlets[j]
       IN  IF inlet # USIZE_MAX
           THEN IF InRange(nodes, inlet)
                THEN /\ graph' = add_edge_attr(graph, node.i, inlet, "b",
                                               At(nodes, inlet).strahler)
                     /\ j' = j + 1
                     /\ pc' = pc
                ELSE /\ pc' = "error"
                     /\ UNCHANGED <<graph, j>>
           ELSE /\ j' = j + 1
                /\ UNCHANGED <<graph, pc>>
    /\ UNCHANGED <<data, nodes, i, uuid>>

\* The inlets of the current node are exhausted (line 76): next node.
river_next_node ==
    /\ pc = "river_edges"
    /\ i <= Len(nodes)
    /\ j > Len(nodes[i].inlets)
    /\ i' = i + 1
    /\ j' = 1
    /\ UNCHANGED <<data, nodes, graph, pc, uuid>>

\* The edge pass is exhausted: the graph goes to nx.draw.
river_edges_done ==
    /\ pc = "river_edges"
    /\ i > Len(nodes)
    /\ pc' = "done"
    /\ UNCHANGED <<data, nodes, graph, i, j, uuid>>

river_graph ==
    \/ river_construct
    \/ river_add_node
    \/ river_nodes_done
    \/ river_add_edge
    \/ river_next_node
    \/ river_edges_done

\* Sequences over S of length at most n.
SeqUpTo(S, n) == UNION {[1..m -> S] : m \in 0..n}

\* One raw record of data['graph'].
RawRecord(id, h, ins, nbs, s) ==
    [i |-> id, uv |-> [x |-> id, y |-> h], h |-> h,
     neighbors |-> nbs, inlets |-> ins, strahler |-> s]

RawRefs == NodeIds \cup {USIZE_MAX}

\* River documents: up to MaxRecords records with pairwise distinct ids,
\* in any order, ids independent of list positions.
RiverRecords ==
    {RawRecord(id, h, ins, <<>>, s) :
        id \in NodeIds, h \in Elevations,
        ins \in SeqUpTo(RawRefs, MaxInlets), s \in Orders}

RiverDocs ==
    {[graph |-> g] :
        g \in {r \in UNION {[1..n -> RiverRecords] : n \in 1..MaxRecords} :
                  \A a, b \in DOMAIN r : a # b => r[a].i # r[b].i}}

InitRiver ==
    /\ data \in RiverDocs
    /\ nodes = <<>>
    /\ graph = EmptyGraph
    /\ pc = "river_load"
    /\ i = 1
    /\ j = 1
    /\ uuid = 0

SpecRiver == InitRiver /\ [][river_graph]_vars

\* Sentinel documents: a plain first record and a second record whose raw
\* adjacency arrays hold the sentinel at any position, any number of times.
SentinelDocs ==
    {[graph |-> <<RawRecord(0, 5, <<>>, <<>>, 2),
                  RawRecord(1, h, ins, nbs, 4)>>] :
        h \in Elevations,
        ins \in SeqUpTo({0, 1, USIZE_MAX}, MaxRaw),
        nbs \in SeqUpTo({0, USIZE_MAX}, MaxRaw)}

InitSentinel ==
    /\ data \in SentinelDocs
    /\ nodes = <<>>
    /\ graph = EmptyGraph
    /\ pc = "river_load"
    /\ i = 1
    /\ j = 1
    /\ uuid = 0

SpecSentinel == InitSentinel /\ [][river_graph]_vars

(***************************************************************************)
(* Claims about river_graph.py                                             *)
(***************************************************************************)
\* A record the node pass must leave out: negative elevation and no inlet
\* other than the sentinel.
Excluded(r) == r.h < 0 /\ \A k \in DOMAIN r.inlets : r.inlets[k] = USIZE_MAX

RetainedIds == {data.graph[k].i : k \in {n \in DOMAIN data.graph : ~Excluded(data.graph[n])}}

\* C2: after both passes, no record with negative elevation and an empty
\* filtered inlets list is a node of the graph, also when another record
\* lists its id as an inlet.
C2_ExcludedNeverNode ==
    pc = "done" =>
        \A k \in DOMAIN data.graph :
            Excluded(data.graph[k]) => data.graph[k].i \notin graph.node

\* C3: after both passes, for every record N that lists the id of a record
\* M as an inlet, the edge between N and M exists and its width is the
\* strahler value of the record whose id is M.
C3_WidthIsInletStrahler ==
    pc = "done" =>
        \A n, m \in DOMAIN data.graph :
            (\E k \in DOMAIN data.graph[n].inlets :
                 data.graph[n].inlets[k] = data.graph[m].i)
            => LET e == {data.graph[n].i, data.graph[m].i}
               IN  /\ e \in graph.edge
                   /\ e \in DOMAIN graph.attr
                   /\ graph.attr[e].width = data.graph[m].strahler

\* C9: an inlet that is the id of an excluded record or of no record never
\* aborts the build and never becomes an edge: the build fails only on an
\* inlet that is the id of a retained record, and every endpoint of every
\* edge is the id of a retained record.
C9_DanglingInletDropped ==
    /\ pc = "error" => nodes[i].inlets[j] \in RetainedIds
    /\ \A e \in graph.edge : e \subseteq RetainedIds

\* out is raw with every sentinel entry removed and the rest in order.
IsSentinelFiltered(raw, out) ==
    /\ \A k \in DOMAIN out : out[k] # USIZE_MAX
    /\ \E f \in [DOMAIN out -> DOMAIN raw] :
          /\ \A a, b \in DOMAIN out : a < b => f[a] < f[b]
          /\ \A a \in DOMAIN out : out[a] = raw[f[a]]
          /\ \A p \in DOMAIN raw :
                (\A a \in DOMAIN out : f[a] # p) => raw[p] = USIZE_MAX

\* C7: the constructed Node's neighbors and inlets are the raw arrays
\* without the sentinel, the other entries in their original order, and
\* the sentinel is never a node or an edge endpoint of the graph.
C7_SentinelFiltered ==
    /\ pc # "river_load" =>
          \A k \in DOMAIN nodes :
              /\ IsSentinelFiltered(data.graph[k].inlets, nodes[k].inlets)
              /\ IsSentinelFiltered(data.graph[k].neighbors, nodes[k].neighbors)
    /\ USIZE_MAX \notin graph.node
    /\ \A e \in graph.edge : USIZE_MAX \notin e

\* A finished build of a record whose raw inlets hold the sentinel first,
\* last and in between live entries, and whose raw neighbors hold it too.
C7_Witness ==
    /\ pc = "done"
    /\ \E k \in DOMAIN data.graph :
          LET ins == data.graph[k].inlets
              nbs == data.graph[k].neighbors
          IN  /\ Len(ins) = 3
              /\ ins[1] = USIZE_MAX /\ ins[2] # USIZE_MAX /\ ins[3] = USIZE_MAX
              /\ \E p \in DOMAIN nbs : nbs[p] = USIZE_MAX
              /\ \E p \in DOMAIN nbs : nbs[p] # USIZE_MAX
              /\ {data.graph[k].i, ins[2]} \in graph.edge

(***************************************************************************)
(* town_graph.py                                                           *)
(***************************************************************************)
\* town_graph.Node.__init__ and Node.add
town_node_add(g, d) == add_node(g, d.i, <<d.uv.x, d.uv.y>>)

\* town_graph.Edge.__init__ and Edge.add
town_edge_add(g, d) == add_edge(g, d.a, d.b)

\* One iteration of `for node_data, _rect in nodes.values()`.
town_add_node ==
    /\ pc = "town_nodes"
    /\ i <= Len(data.nodes.elements)
    /\ graph' = town_node_add(graph, data.nodes.elements[i][1])
    /\ i' = i + 1
    /\ UNCHANGED <<data, nodes, pc, j, uuid>>

\* The node records are exhausted: the edge loop starts.
town_nodes_done ==
    /\ pc = "town_nodes"
    /\ i > Len(data.nodes.elements)
    /\ pc' = "town_edges"
    /\ i' = 1
    /\ UNCHANGED <<data, nodes, graph, j, uuid>>

\* One iteration of `for edge_dict, _rect in edges.values()`.
town_add_edge ==
    /\ pc = "town_edges"
    /\ i <= Len(data.edges.elements)
    /\ graph' = town_edge_add(graph, data.edges.elements[i][1])
    /\ i' = i + 1
    /\ UNCHANGED <<data, nodes, pc, j, uuid>>

\* The edge records are exhausted: the graph goes to nx.draw.
town_edges_done ==
    /\ pc = "town_edges"
    /\ i > Len(data.edges.elements)
    /\ pc' = "done"
    /\ UNCHANGED <<data, nodes, graph, i, j, uuid>>

graph_town ==
    \/ town_add_node
    \/ town_nodes_done
    \/ town_add_edge
    \/ town_edges_done

\* Town documents.  `elements` is a JSON object; its values() come in
\* document order, so it is modelled as the sequence of its values, each a
\* pair [record, auxiliary].
TownNodeElements ==
    {<<[i |-> id, uv |-> [x |-> x, y |-> 0]], "rect">> :
        id \in TownIds, x \in {0, 1}}

TownEdgeElements ==
    {<<[a |-> a, b |-> b], "rect">> : a \in TownRefs, b \in TownRefs}

TownDocs ==
    {[nodes |-> [elements |-> ns], edges |-> [elements |-> es]] :
        ns \in SeqUpTo(TownNodeElements, MaxTownNodes),
        es \in SeqUpTo(TownEdgeElements, MaxTownEdges)}

InitTown ==
    /\ data \in TownDocs
    /\ nodes = <<>>
    /\ graph = EmptyGraph
    /\ pc = "town_nodes"
    /\ i = 1
    /\ j = 1
    /\ uuid = 0

SpecTown == InitTown /\ [][graph_town]_vars

(***************************************************************************)
(* Claims about town_graph.py                                              *)
(***************************************************************************)
TownRecordIds ==
    {data.nodes.elements[k][1].i : k \in DOMAIN data.nodes.elements}

\* C5: every node of the graph has a position attribute; no node exists
\* only because it was named as the endpoint of an edge.
C5_EveryNodeHasPos == \A n \in graph.node : n \in DOMAIN graph.pos

\* C6: the finished town graph has exactly the node records as nodes and
\* no edge with an endpoint that is not the id of a node record.
C6_DanglingTownEdgeDropped ==
    pc = "done" =>
        /\ graph.node = TownRecordIds
        /\ \A e \in graph.edge : e \subseteq TownRecordIds

(***************************************************************************)
(* poly_graph.py                                                           *)
(*                                                                         *)
(* A decoded JSON value is a tagged tuple: <<"num", n>>, <<"list", xs>>    *)
(* with xs the sequence of its items, or <<"dict", kvs>> with kvs the      *)
(* sequence of its <<key, value>> pairs in document order (the order       *)
(* obj.items() iterates in).                                               *)
(***************************************************************************)
Num(n) == <<"num", n>>
List(xs) == <<"list", xs>>
Dict(kvs) == <<"dict", kvs>>

\* isinstance(obj, dict), isinstance(obj, list)
IsDict(obj) == obj[1] = "dict"
IsList(obj) == obj[1] = "list"

\* k in obj
HasKey(obj, k) == \E p \in DOMAIN obj[2] : obj[2][p][1] = k

\* obj[k]
Get(obj, k) == obj[2][CHOOSE p \in DOMAIN obj[2] : obj[2][p][1] = k][2]

\* Poly.__init__: the exterior list as given.
Poly(exterior) == <<"Poly", exterior>>

\* Point.__init__: data['x'], data['y'].
Point(d) == <<"Point", Get(d, "x"), Get(d, "y")>>

RECURSIVE recurse(_), recurse_items(_, _), recurse_list(_, _)

\* discover_poly.recurse, the loop `for k, v in obj.items()` from item p on.
recurse_items(obj, p) ==
    IF p > Len(obj[2]) THEN <<>>
    ELSE LET k == obj[2][p][1]
             v == obj[2][p][2]
         IN  IF k = "exterior" /\ IsList(v)
             THEN <<Poly(v[2])>> \o recurse_items(obj, p + 1)
             ELSE IF k = "y" /\ HasKey(obj, "x")
             THEN <<Point(obj)>>
             ELSE recurse(v) \o recurse_items(obj, p + 1)

\* discover_poly.recurse, the loop `for item in obj` from item p on.
recurse_list(xs, p) ==
    IF p > Len(xs) THEN <<>>
    ELSE recurse(xs[p]) \o recurse_list(xs, p + 1)

\* discover_poly.recurse: the sequence of objects the generator yields.
recurse(obj) ==
    IF IsDict(obj) THEN recurse_items(obj, 1)
    ELSE IF IsList(obj) THEN recurse_list(obj[2], 1)
    ELSE <<>>

\* discover_poly: everything yielded for the loaded document.
discover_poly(d) == recurse(d)

\* Poly.add, line 17: points = self.exterior[:-1]
poly_points(exterior) == SubSeq(exterior, 1, Len(exterior) - 1)

\* Poly.add, line 18: one uuid4() per point; the k-th value drawn by the
\* process stands for itself.
poly_ids(n, points) == [k \in 1..Len(points) |-> n + k]

\* A faulty ring that joins consecutive ids and never closes back to the
\* first.
poly_edges_open(ids) ==
    [k \in 1..(Len(ids) - 1) |-> <<ids[k], ids[k + 1]>>]

\* Poly.add, lines 21-23: the pairs (a, b) handed to graph.add_edge, for
\* i = 0 .. len(ids) over ids + [ids[0]], b = ids[(i + 1) % len(ids)].
poly_edges(ids) ==
    [k \in 1..(Len(ids) + 1) |->
        <<(ids \o <<ids[1]>>)[k], ids[(k % Len(ids)) + 1]>>]

RECURSIVE add_nodes(_, _, _, _), add_edges(_, _, _)

\* Poly.add, lines 19-20, from point p on.
add_nodes(g, ids, points, p) ==
    IF p > Len(ids) THEN g
    ELSE add_nodes(add_node(g, ids[p],
                            <<Get(points[p], "x"), Get(points[p], "y")>>),
                   ids, points, p + 1)

\* Poly.add, lines 21-23, from pair p on.
add_edges(g, pairs, p) ==
    IF p > Len(pairs) THEN g
    ELSE add_edges(add_edge(g, pairs[p][1], pairs[p][2]), pairs, p + 1)

\* Poly.add on a ring with at least one point.  Every item of the exterior
\* lists of the checked documents is a mapping with x and y, so pos['x']
\* and pos['y'] never raise.
Poly_add(g, n, exterior) ==
    LET points == poly_points(exterior)
        ids == poly_ids(n, points)
    IN  add_edges(add_nodes(g, ids, points, 1), poly_edges(ids), 1)

\* Point.add
Point_add(g, n, pt) == add_node(g, n + 1, <<pt[2], pt[3]>>)

\* graph_poly: obj.add(graph) for a Poly whose ring is not empty.
poly_add ==
    /\ pc = "poly"
    /\ i <= Len(discover_poly(data))
    /\ LET obj == discover_poly(data)[i]
       IN  /\ obj[1] = "Poly"
           /\ poly_points(obj[2]) # <<>>
           /\ graph' = Poly_add(graph, uuid, obj[2])
           /\ uuid' = uuid + Len(poly_points(obj[2]))
    /\ i' = i + 1
    /\ UNCHANGED <<data, nodes, pc, j>>

\* graph_poly: obj.add(graph) for a Poly with no ring point: no node is
\* added and ids[0] raises IndexError, which leaves graph_poly.
poly_add_fails ==
    /\ pc = "poly"
    /\ i <= Len(discover_poly(data))
    /\ LET obj == discover_poly(data)[i]
       IN  /\ obj[1] = "Poly"
           /\ poly_points(obj[2]) = <<>>
    /\ pc' = "error"
    /\ UNCHANGED <<data, nodes, graph, i, j, uuid>>

\* graph_poly: obj.add(graph) for a Point.
point_add ==
    /\ pc = "poly"
    /\ i <= Len(discover_poly(data))
    /\ LET obj == discover_poly(data)[i]
       IN  /\ obj[1] = "Point"
           /\ graph' = Point_add(graph, uuid, obj)
    /\ uuid' = uuid + 1
    /\ i' = i + 1
    /\ UNCHANGED <<data, nodes, pc, j>>

\* The generator is exhausted: the graph goes to nx.draw.
poly_done ==
    /\ pc = "poly"
    /\ i > Len(discover_poly(data))
    /\ pc' = "done"
    /\ UNCHANGED <<data, nodes, graph, i, j, uuid>>

graph_poly ==
    \/ poly_add
    \/ poly_add_fails
    \/ point_add
    \/ poly_done

\* A point mapping {"x": k, "y": 0}.
Pt(k) == Dict(<< <<"x", Num(k)>>, <<"y", Num(0)>> >>)

\* An exterior list: n ring points followed by the closing duplicate of
\* the first; the empty list for n = 0.
Ring(n) ==
    List([k \in 1..(IF n = 0 THEN 0 ELSE n + 1) |->
             IF k = n + 1 THEN Pt(1) ELSE Pt(k)])

\* A polygon record {"exterior": [...]}.
PolyRec(n) == Dict(<< <<"exterior", Ring(n)>> >>)

\* Documents of plain shapes: a list of polygon records of every ring size
\* up to MaxRing and of points.
PlainDocs ==
    {List(xs) :
        xs \in SeqUpTo({PolyRec(n) : n \in 0..MaxRing} \cup {Pt(0)}, MaxShapes)}

Keys == {"exterior", "x", "y", "z"}

\* The values a member may hold, by key.
MemberValues(k) ==
    CASE k = "exterior" -> {Ring(3), Num(0)}
      [] k = "x" -> {Num(0)}
      [] k = "y" -> {Num(0)}
      [] k = "z" -> {Num(0), Pt(0), PolyRec(3), List(<<PolyRec(4), Pt(0)>>)}

\* Sequences of pairwise distinct keys.
KeyOrders ==
    {ks \in UNION {[1..n -> Keys] : n \in 1..Cardinality(Keys)} :
        \A a, b \in DOMAIN ks : a # b => ks[a] # ks[b]}

RECURSIVE KeyValues(_)

\* The <<key, value>> sequences with the keys ks, in that order.
KeyValues(ks) ==
    IF ks = <<>> THEN {<<>>}
    ELSE {<< <<ks[1], v>> >> \o rest :
             v \in MemberValues(ks[1]), rest \in KeyValues(Tail(ks))}

\* Mappings over Keys, in every key order, with every choice of values.
Mappings == UNION {{Dict(kvs) : kvs \in KeyValues(ks)} : ks \in KeyOrders}

\* Nested documents: a mapping, a mapping one level down, and a mapping
\* beside a polygon record that sits one level deeper.
NestedDocs ==
    Mappings
    \cup {Dict(<< <<"z", m>> >>) : m \in Mappings}
    \cup {List(<<m, Dict(<< <<"z", PolyRec(3)>> >>)>>) : m \in Mappings}

InitPoly ==
    /\ data \in PlainDocs \cup NestedDocs
    /\ nodes = <<>>
    /\ graph = EmptyGraph
    /\ pc = "poly"
    /\ i = 1
    /\ j = 1
    /\ uuid = 0

SpecPoly == InitPoly /\ [][graph_poly]_vars

(***************************************************************************)
(* Claims about poly_graph.py                                              *)
(***************************************************************************)
\* The nodes reachable from the nodes in seen along the edges in E.
RECURSIVE Reach(_, _)
Reach(seen, E) ==
    LET more == seen \cup UNION {e \in E : e \cap seen # {}}
    IN  IF more = seen THEN seen ELSE Reach(more, E)

\* V and E form one cycle through every node of V.
IsSingleCycle(V, E) ==
    /\ V # {}
    /\ \A e \in E : e \subseteq V /\ Cardinality(e) = 2
    /\ \A v \in V : Cardinality({e \in E : v \in e}) = 2
    /\ Reach({CHOOSE v \in V : TRUE}, E) = V

\* The step about to be taken adds a Poly with at least three ring points.
AboutToAddRing ==
    /\ pc = "poly"
    /\ i <= Len(discover_poly(data))
    /\ discover_poly(data)[i][1] = "Poly"
    /\ Len(discover_poly(data)[i][2]) - 1 >= 3

\* C1: Poly.add of an exterior of n >= 3 ring points and one closing
\* duplicate, on whatever graph was built so far, keeps that graph, adds
\* exactly n new nodes, each with a position, and exactly n new edges, and
\* the new edges form a single cycle with two edges at every new node.
C1_PolyAddRing ==
    [][AboutToAddRing =>
         LET n == Len(discover_poly(data)[i][2]) - 1
             V == graph'.node \ graph.node
             E == graph'.edge \ graph.edge
         IN  /\ graph.node \subseteq graph'.node
             /\ graph.edge \subseteq graph'.edge
             /\ Cardinality(V) = n
             /\ V \subseteq DOMAIN graph'.pos
             /\ Cardinality(E) = n
             /\ IsSingleCycle(V, E)]_vars

\* A ring of at least three points has been added to a graph that already
\* held the nodes and edges of an earlier shape.
C1_Witness ==
    /\ pc \in {"poly", "done"}
    /\ i = 3
    /\ discover_poly(data)[1][1] = "Poly"
    /\ discover_poly(data)[2][1] = "Poly"
    /\ Len(discover_poly(data)[2][2]) - 1 = MaxRing
    /\ Cardinality(graph.edge) > MaxRing

RECURSIVE SubValues(_)

\* Every value of the document: obj and the values nested in it.
SubValues(obj) ==
    {obj} \cup
    IF IsDict(obj) THEN UNION {SubValues(obj[2][p][2]) : p \in DOMAIN obj[2]}
    ELSE IF IsList(obj) THEN UNION {SubValues(obj[2][p]) : p \in DOMAIN obj[2]}
    ELSE {}

\* A mapping with a member `exterior` whose value is a list.
IsPolygonRecord(obj) ==
    IsDict(obj) /\ HasKey(obj, "exterior") /\ IsList(Get(obj, "exterior"))

\* A mapping with scalar members `x` and `y` and no `exterior` list.
IsPointMapping(obj) ==
    /\ IsDict(obj)
    /\ HasKey(obj, "x") /\ Get(obj, "x")[1] = "num"
    /\ HasKey(obj, "y") /\ Get(obj, "y")[1] = "num"
    /\ ~IsPolygonRecord(obj)

\* C4: a polygon record is terminal: the walk of a mapping with an
\* `exterior` list yields one Poly for it and nothing from any other
\* member, whatever the position of the `exterior` key.
C4_PolygonTerminal ==
    pc = "done" =>
        \A m \in SubValues(data) :
            IsPolygonRecord(m) =>
                /\ Len(recurse(m)) = 1
                /\ recurse(m)[1] = Poly(Get(m, "exterior")[2])

\* C8: the walk of a point mapping yields one Point for it and nothing
\* from any of its members, whatever the order of its keys.
C8_PointTerminal ==
    pc = "done" =>
        \A m \in SubValues(data) :
            IsPointMapping(m) =>
                /\ Len(recurse(m)) = 1
                /\ recurse(m)[1] = Point(m)

RECURSIVE PolygonRecords(_), PolygonRecordsIn(_, _)

\* The exteriors of the polygon records of the document, in document
\* order, leaving out what lies inside an exterior list or a point mapping.
PolygonRecords(obj) ==
    IF IsPointMapping(obj) THEN <<>>
    ELSE IF IsDict(obj)
    THEN (IF IsPolygonRecord(obj) THEN <<Get(obj, "exterior")[2]>> ELSE <<>>)
         \o PolygonRecordsIn([p \in DOMAIN obj[2] |->
                                 IF obj[2][p][1] = "exterior" /\ IsList(obj[2][p][2])
                                 THEN Num(0) ELSE obj[2][p][2]], 1)
    ELSE IF IsList(obj) THEN PolygonRecordsIn(obj[2], 1)
    ELSE <<>>

PolygonRecordsIn(xs, p) ==
    IF p > Len(xs) THEN <<>>
    ELSE PolygonRecords(xs[p]) \o PolygonRecordsIn(xs, p + 1)

\* Every polygon record of the document, wherever it lies.
AllPolygonRecords(obj) == {m \in SubValues(obj) : IsPolygonRecord(m)}

\* No polygon record lies inside an exterior list or a point mapping.
NoHiddenPolygon(obj) ==
    /\ \A m \in SubValues(obj) :
          IsPolygonRecord(m) =>
              AllPolygonRecords(Get(m, "exterior")) = {}
    /\ \A m \in SubValues(obj) :
          IsPointMapping(m) => AllPolygonRecords(m) = {}

\* How many times x occurs in the sequence xs.
Count(xs, x) == Cardinality({p \in DOMAIN xs : xs[p] = x})

\* C10: for a document none of whose polygon records lies inside an
\* exterior list or a point mapping, the finished walk has yielded exactly
\* one Poly per polygon record: each exterior as often as polygon records
\* hold it.
C10_EveryPolygonOnce ==
    (pc = "done" /\ NoHiddenPolygon(data)) =>
        LET found == SelectSeq(discover_poly(data), LAMBDA e : e[1] = "Poly")
            want == PolygonRecords(data)
        IN  /\ Len(found) = Len(want)
            /\ \A p \in DOMAIN want :
                   Count(found, Poly(want[p])) = Count(want, want[p])

====
